---- MODULE Spec2Model ----
(***************************************************************************)
(* A model of netbox/secrets/forms.py: the RSA key validator, the user-key *)
(* form, and the secret forms (interactive SecretForm and bulk-import      *)
(* SecretCSVForm) together with the save step they hand their data to.     *)
(***************************************************************************)
EXTENDS Integers, Sequences, FiniteSets, TLC

VARIABLES
    kv,       \* the last call of validate_rsa_key: its arguments and its outcome
    uk,       \* the last UserKeyForm submission: the submitted key and the outcome
    db,       \* the stored secrets: pk -> [device, role, name, ciphertext]
    req       \* per caller: the secret form request in flight

vars == <<kv, uk, db, req>>

(***************************************************************************)
(* Key blobs.  validate_rsa_key looks at a blob only through four library  *)
(* calls, so a blob is the tuple of what those calls return on it:         *)
(*   ssh          key.startswith('ssh-rsa ')                               *)
(*   parse        RSA.importKey(key): "ok", or the exception it raises     *)
(*                ("ValueError", or "Other" for any other exception)       *)
(*   has_private  key.has_private() of the parsed key                      *)
(*   oaep         PKCS1_OAEP.new(key): "ok" or "throws"                    *)
(* importKey reads an 'ssh-rsa ' line as a public key, so such a blob, if  *)
(* it parses, has no private components.  A blob that does not parse has   *)
(* no parsed key: has_private and oaep are fixed to FALSE and "ok".        *)
(***************************************************************************)
ParseOutcomes == {"ok", "ValueError", "Other"}

KeyBlobs ==
    { b \in [ssh : BOOLEAN, parse : ParseOutcomes, has_private : BOOLEAN,
             oaep : {"ok", "throws"}] :
        /\ (b.parse # "ok") => (b.has_private = FALSE /\ b.oaep = "ok")
        /\ (b.ssh /\ b.parse = "ok") => (b.has_private = FALSE) }

OK == "OK"
ErrOpenSSH == "OpenSSH line format is not supported"
ErrInvalidRSA == "Invalid RSA key"
ErrInvalidKey == "Invalid key detected"
ErrPublicGiven == "This looks like a public key"
ErrPrivateGiven == "This looks like a private key"
ErrOAEP == "Error validating RSA key"

\* validate_rsa_key without its second kind test (lines 32-33).
validate_rsa_key_no_private_test(key, is_secret) ==
    IF key.ssh THEN ErrOpenSSH
    ELSE IF key.parse = "ValueError" THEN ErrInvalidRSA
    ELSE IF key.parse # "ok" THEN ErrInvalidKey
    ELSE IF is_secret /\ ~key.has_private THEN ErrPublicGiven
    ELSE IF key.oaep # "ok" THEN ErrOAEP
    ELSE OK

\* validate_rsa_key with the OpenSSH test placed after the parse.
validate_rsa_key_ssh_after_parse(key, is_secret) ==
    IF key.parse = "ValueError" THEN ErrInvalidRSA
    ELSE IF key.parse # "ok" THEN ErrInvalidKey
    ELSE IF key.ssh THEN ErrOpenSSH
    ELSE IF is_secret /\ ~key.has_private THEN ErrPublicGiven
    ELSE IF ~is_secret /\ key.has_private THEN ErrPrivateGiven
    ELSE IF key.oaep # "ok" THEN ErrOAEP
    ELSE OK

\* validate_rsa_key catching only ValueError from the parse (no lines 28-29).
validate_rsa_key_only_ValueError(key, is_secret) ==
    IF key.ssh THEN ErrOpenSSH
    ELSE IF key.parse = "ValueError" THEN ErrInvalidRSA
    ELSE IF key.parse # "ok" THEN "unhandled exception"
    ELSE IF is_secret /\ ~key.has_private THEN ErrPublicGiven
    ELSE IF ~is_secret /\ key.has_private THEN ErrPrivateGiven
    ELSE IF key.oaep # "ok" THEN ErrOAEP
    ELSE OK

\* validate_rsa_key without the OAEP construction (lines 34-37).
validate_rsa_key_no_oaep(key, is_secret) ==
    IF key.ssh THEN ErrOpenSSH
    ELSE IF key.parse = "ValueError" THEN ErrInvalidRSA
    ELSE IF key.parse # "ok" THEN ErrInvalidKey
    ELSE IF is_secret /\ ~key.has_private THEN ErrPublicGiven
    ELSE IF ~is_secret /\ key.has_private THEN ErrPrivateGiven
    ELSE OK

\* forms.py 18-37
validate_rsa_key(key, is_secret) ==
    IF key.ssh THEN ErrOpenSSH
    ELSE IF key.parse = "ValueError" THEN ErrInvalidRSA
    ELSE IF key.parse # "ok" THEN ErrInvalidKey
    ELSE IF is_secret /\ ~key.has_private THEN ErrPublicGiven
    ELSE IF ~is_secret /\ key.has_private THEN ErrPrivateGiven
    ELSE IF key.oaep # "ok" THEN ErrOAEP
    ELSE OK

\* clean_public_key calling validate_rsa_key with its default is_secret=True.
clean_public_key_default_is_secret(key) ==
    LET r == validate_rsa_key(key, TRUE)
    IN  IF r = OK THEN [valid |-> TRUE, value |-> key]
        ELSE [valid |-> FALSE, error |-> r]

\* forms.py 204-210: the cleaned value is the submitted key, or the
\* validation error validate_rsa_key raised.
clean_public_key(key) ==
    LET r == validate_rsa_key(key, FALSE)
    IN  IF r = OK THEN [valid |-> TRUE, value |-> key]
        ELSE [valid |-> FALSE, error |-> r]

InitKeys ==
    /\ kv = [called |-> FALSE]
    /\ uk = [submitted |-> FALSE]

\* A caller validates a key blob.
ValidateKey ==
    /\ \E key \in KeyBlobs, is_secret \in BOOLEAN :
           kv' = [called |-> TRUE, key |-> key, is_secret |-> is_secret,
                  result |-> validate_rsa_key(key, is_secret)]
    /\ UNCHANGED <<uk, db, req>>

\* A user submits a UserKeyForm; public_key is cleaned by clean_public_key.
SubmitUserKey ==
    /\ \E key \in KeyBlobs :
           uk' = [submitted |-> TRUE, public_key |-> key, cleaned |-> clean_public_key(key)]
    /\ UNCHANGED <<kv, db, req>>

(***************************************************************************)
(* Secrets.                                                                *)
(***************************************************************************)
MaxSecrets == 2          \* at most this many secrets are stored
MaxPlain == 3            \* submitted plaintexts are at most this long

\* .constants.SECRET_PLAINTEXT_MAX_LENGTH, scaled down: the limit that
\* SecretForm.plaintext and plaintext2 take as max_length (forms.py 70, 80).
SECRET_PLAINTEXT_MAX_LENGTH == 2

Callers == {"c1", "c2"}
Devices == {"d1", "d2"}
Roles == {"r1"}
Names == {"n1", "n2"}
NoValue == "NoValue"     \* a choice field submitted blank

Str(n) == [i \in 1..n |-> "x"]
Plaintexts == { Str(n) : n \in 0..MaxPlain }

\* What a caller posts to SecretForm, and a row of a bulk import.
FormData ==
    [device : Devices \cup {NoValue}, role : Roles \cup {NoValue}, name : Names,
     plaintext : Plaintexts, plaintext2 : Plaintexts]
CSVData ==
    [device : Devices \cup {NoValue}, role : Roles \cup {NoValue}, name : Names,
     plaintext : Plaintexts]

\* forms.CharField.clean: a blank value is an error when the field is
\* required and the empty string otherwise; a value longer than max_length
\* (max_length is the set holding the limit, empty when none is set) is an
\* error.
CharField(value, required, max_length) ==
    IF value = <<>>
    THEN IF required THEN [ok |-> FALSE, error |-> "required"]
         ELSE [ok |-> TRUE, value |-> <<>>]
    ELSE IF \E m \in max_length : Len(value) > m
    THEN [ok |-> FALSE, error |-> "max_length"]
    ELSE [ok |-> TRUE, value |-> value]

\* A required model choice field over a queryset.
ModelChoiceField(value, queryset) ==
    IF value = NoValue THEN [ok |-> FALSE, error |-> "required"]
    ELSE IF value \notin queryset THEN [ok |-> FALSE, error |-> "invalid_choice"]
    ELSE [ok |-> TRUE, value |-> value]

\* __init__ that leaves plaintext as declared, required=False.
SecretForm_init_never_required(pk) == FALSE

\* forms.py 99-104: plaintext is required when the instance has no pk
\* (pk 0 stands for the unsaved instance's pk of None).
SecretForm_init(pk) == pk = 0

\* forms.py 65-87: the declared fields of SecretForm, each cleaned on its
\* own.  name is the model's own field and is taken as submitted; tags is
\* optional and clean does not read it, so it is left out.
SecretForm_fields(data, required) ==
    [device     |-> ModelChoiceField(data.device, Devices),
     role       |-> ModelChoiceField(data.role, Roles),
     name       |-> [ok |-> TRUE, value |-> data.name],
     plaintext  |-> CharField(data.plaintext, required, {SECRET_PLAINTEXT_MAX_LENGTH}),
     plaintext2 |-> CharField(data.plaintext2, FALSE, {SECRET_PLAINTEXT_MAX_LENGTH})]

\* SecretCSVForm with plaintext declared required=False, as SecretForm has it.
SecretCSVForm_fields_optional_plaintext(data) ==
    [device    |-> ModelChoiceField(data.device, Devices),
     role      |-> ModelChoiceField(data.role, Roles),
     name      |-> [ok |-> TRUE, value |-> data.name],
     plaintext |-> CharField(data.plaintext, FALSE, {})]

\* forms.py 126-138: the declared fields of SecretCSVForm.
SecretCSVForm_fields(data) ==
    [device    |-> ModelChoiceField(data.device, Devices),
     role      |-> ModelChoiceField(data.role, Roles),
     name      |-> [ok |-> TRUE, value |-> data.name],
     plaintext |-> CharField(data.plaintext, TRUE, {})]

\* cleaned_data after the fields are cleaned: only the fields that passed.
CleanedData(fields) ==
    [f \in {g \in DOMAIN fields : fields[g].ok} |-> fields[f].value]
FieldErrors(fields) == {g \in DOMAIN fields : ~fields[g].ok}

\* The query without .exclude(pk=self.instance.pk).
FilterExists(store, device, role, name, pk) ==
    \E p \in DOMAIN store :
        /\ store[p].device = device
        /\ store[p].role = role
        /\ store[p].name = name

\* Secret.objects.filter(device, role, name).exclude(pk).exists()
FilterExcludeExists(store, device, role, name, pk) ==
    \E p \in DOMAIN store \ {pk} :
        /\ store[p].device = device
        /\ store[p].role = role
        /\ store[p].name = name

\* forms.py 106-122.  "KeyError" is the exception a read of a key that is
\* not in cleaned_data raises.
SecretForm_clean(cleaned, pk, store) ==
    IF ~({"plaintext", "plaintext2"} \subseteq DOMAIN cleaned) THEN "KeyError"
    ELSE IF cleaned.plaintext # cleaned.plaintext2 THEN "plaintext2"
    ELSE IF ~({"device", "role", "name"} \subseteq DOMAIN cleaned) THEN "KeyError"
    ELSE IF FilterExcludeExists(store, cleaned.device, cleaned.role, cleaned.name, pk)
    THEN "unique"
    ELSE OK

\* SecretForm.is_valid(): __init__ (99-104), the fields (65-87), then
\* clean (106-122), which runs whether or not a field failed.  An error
\* that clean raises on plaintext2 removes it from cleaned_data.
SecretForm_is_valid(data, pk, store) ==
    LET required == SecretForm_init(pk)
        fields == SecretForm_fields(data, required)
        cleaned == CleanedData(fields)
        result == SecretForm_clean(cleaned, pk, store)
    IN  [required |-> required,
         cleaned |-> IF result = "plaintext2"
                     THEN [f \in DOMAIN cleaned \ {"plaintext2"} |-> cleaned[f]]
                     ELSE cleaned,
         errors |-> FieldErrors(fields)
                        \cup (IF result \in {OK, "KeyError"} THEN {} ELSE {result}),
         outcome |-> IF result = "KeyError" THEN "KeyError"
                     ELSE IF result = OK /\ FieldErrors(fields) = {} THEN "valid"
                     ELSE "invalid"]

\* SecretCSVForm.is_valid(): the fields (126-138); the class defines no clean.
SecretCSVForm_is_valid(data) ==
    LET fields == SecretCSVForm_fields(data)
    IN  [required |-> TRUE,
         cleaned |-> CleanedData(fields),
         errors |-> FieldErrors(fields),
         outcome |-> IF FieldErrors(fields) = {} THEN "valid" ELSE "invalid"]

\* forms.py 147-150: the instance built from the row, with its plaintext set.
SecretCSVForm_save(cleaned) ==
    [device |-> cleaned.device, role |-> cleaned.role, name |-> cleaned.name,
     plaintext |-> cleaned.plaintext]

(***************************************************************************)
(* The save step the forms hand a valid submission to.  Its code (the      *)
(* views and the Secret model) is not in forms.py; it is modelled from the *)
(* specification: the instance takes the non-secret fields; a supplied     *)
(* plaintext is length-checked again and encrypted, an omitted one leaves  *)
(* the ciphertext as it is (4.5, 4.6, 6); the write fails when it would    *)
(* break the uniqueness of (device, role, name) (3, 5).                    *)
(***************************************************************************)
SecretInstance(cleaned) ==
    [device |-> cleaned.device, role |-> cleaned.role, name |-> cleaned.name,
     plaintext |-> cleaned.plaintext]

Encrypt(plaintext) == <<"enc", plaintext>>

Triple(r) == <<r.device, r.role, r.name>>

\* A store with no uniqueness constraint.
NoConstraint(store) == TRUE

UniqueTogether(store) ==
    \A p, q \in DOMAIN store : p # q => Triple(store[p]) # Triple(store[q])

PlaintextWithinBound(plaintext) == Len(plaintext) <= SECRET_PLAINTEXT_MAX_LENGTH

Written(store, pk, s) ==
    IF pk = 0
    THEN Append(store, [device |-> s.device, role |-> s.role, name |-> s.name,
                        ciphertext |-> Encrypt(s.plaintext)])
    ELSE [store EXCEPT ![pk] =
              [device |-> s.device, role |-> s.role, name |-> s.name,
               ciphertext |-> IF s.plaintext # <<>> THEN Encrypt(s.plaintext)
                              ELSE @.ciphertext]]

SaveSecret(store, pk, s) ==
    IF ~PlaintextWithinBound(s.plaintext)
    THEN [status |-> "PlaintextTooLong", store |-> store, pk |-> pk]
    ELSE IF ~UniqueTogether(Written(store, pk, s))
    THEN [status |-> "UniquenessViolation", store |-> store, pk |-> pk]
    ELSE [status |-> "saved", store |-> Written(store, pk, s),
          pk |-> IF pk = 0 THEN Len(store) + 1 ELSE pk]

(***************************************************************************)
(* Requests.  A caller binds a form and validates it in one step, saves a  *)
(* valid form in a later step, and then the request ends.                  *)
(***************************************************************************)
Idle == [phase |-> "idle"]

InitSecrets ==
    /\ db = <<>>
    /\ req = [c \in Callers |-> Idle]

Init == InitKeys /\ InitSecrets

Bound(c, form, pk, data, v) ==
    [phase |-> IF v.outcome = "valid" THEN "validated" ELSE "done",
     form |-> form, pk |-> pk, data |-> data, required |-> v.required,
     cleaned |-> v.cleaned, errors |-> v.errors, outcome |-> v.outcome,
     saved |-> "no", instance_pk |-> pk]

\* A caller posts a SecretForm, to create (pk 0) or to edit a stored secret.
SubmitSecretForm(c, inputs) ==
    /\ req[c].phase = "idle"
    /\ \E data \in inputs, pk \in {0} \cup DOMAIN db :
           req' = [req EXCEPT ![c] =
                      Bound(c, "SecretForm", pk, data, SecretForm_is_valid(data, pk, db))]
    /\ UNCHANGED <<kv, uk, db>>

\* A caller imports one row through SecretCSVForm; an import always creates.
SubmitSecretCSVForm(c, inputs) ==
    /\ req[c].phase = "idle"
    /\ \E data \in inputs :
           req' = [req EXCEPT ![c] =
                      Bound(c, "SecretCSVForm", 0, data, SecretCSVForm_is_valid(data))]
    /\ UNCHANGED <<kv, uk, db>>

\* The valid form is saved.
Save(c) ==
    /\ req[c].phase = "validated"
    /\ LET s == IF req[c].form = "SecretCSVForm"
                THEN SecretCSVForm_save(req[c].cleaned)
                ELSE SecretInstance(req[c].cleaned)
           w == SaveSecret(db, req[c].pk, s)
       IN  /\ Len(w.store) <= MaxSecrets
           /\ db' = w.store
           /\ req' = [req EXCEPT ![c].phase = "done", ![c].saved = w.status,
                                 ![c].instance_pk = w.pk]
    /\ UNCHANGED <<kv, uk>>

\* The response is sent and the request is gone.
Respond(c) ==
    /\ req[c].phase # "idle"
    /\ req' = [req EXCEPT ![c] = Idle]
    /\ UNCHANGED <<kv, uk, db>>

\* One request at a time.
Alone(c) == \A o \in Callers \ {c} : req[o].phase = "idle"

Next ==
    \/ \E c \in Callers : Alone(c) /\ SubmitSecretForm(c, FormData)
    \/ \E c \in Callers : Alone(c) /\ SubmitSecretCSVForm(c, CSVData)
    \/ \E c \in Callers : Alone(c) /\ Save(c)
    \/ \E c \in Callers : Alone(c) /\ Respond(c)

Spec == Init /\ [][Next]_vars

\* Concurrent callers.  Their submissions are the ones that pass the
\* fields: both choices made and one in-bound plaintext typed twice.
ConcFormData ==
    { d \in FormData : /\ d.device # NoValue /\ d.role # NoValue
                       /\ d.plaintext = Str(1) /\ d.plaintext2 = Str(1) }
ConcCSVData ==
    { d \in CSVData : d.device # NoValue /\ d.role # NoValue /\ d.plaintext = Str(1) }

NextConc ==
    \/ \E c \in Callers : SubmitSecretForm(c, ConcFormData)
    \/ \E c \in Callers : SubmitSecretCSVForm(c, ConcCSVData)
    \/ \E c \in Callers : Save(c)
    \/ \E c \in Callers : Respond(c)

SpecConc == Init /\ [][NextConc]_vars

NextKeys == ValidateKey \/ SubmitUserKey

SpecKeys == Init /\ [][NextKeys]_vars

(***************************************************************************)
(* Properties of the key validator (checked under SpecKeys).               *)
(***************************************************************************)
ValidationErrors ==
    {ErrOpenSSH, ErrInvalidRSA, ErrInvalidKey, ErrPublicGiven, ErrPrivateGiven, ErrOAEP}
KindErrors == {ErrPublicGiven, ErrPrivateGiven}
FormatErrors == {ErrOpenSSH, ErrInvalidRSA, ErrInvalidKey}

WrongKind(key, is_secret) == key.has_private # is_secret

\* C1 as claimed: every blob that parses as an RSA key and is of the wrong
\* kind is rejected with the error of its direction: a public key where a
\* private one is expected with ErrPublicGiven, a private key where a
\* public one is expected with ErrPrivateGiven.
C1_AsClaimed ==
    (kv.called /\ kv.key.parse = "ok") =>
        /\ (kv.is_secret /\ ~kv.key.has_private) => kv.result = ErrPublicGiven
        /\ (~kv.is_secret /\ kv.key.has_private) => kv.result = ErrPrivateGiven

\* C1 amended: a blob that parses as an RSA key and is not in OpenSSH line
\* format is rejected with the error of its direction when it is of the
\* wrong kind; no blob of the wrong kind, in OpenSSH line format or not, is
\* ever accepted.
C1_KindMismatch ==
    (kv.called /\ kv.key.parse = "ok") =>
        /\ (~kv.key.ssh /\ kv.is_secret /\ ~kv.key.has_private)
               => kv.result = ErrPublicGiven
        /\ (~kv.key.ssh /\ ~kv.is_secret /\ kv.key.has_private)
               => kv.result = ErrPrivateGiven
        /\ WrongKind(kv.key, kv.is_secret) => kv.result # OK

C1_Witness ==
    /\ kv.called /\ kv.key.parse = "ok" /\ ~kv.key.ssh
    /\ ~kv.is_secret /\ kv.key.has_private /\ kv.key.oaep = "ok"
    /\ kv.result = ErrPrivateGiven

\* C5: a blob in OpenSSH line format is rejected with the OpenSSH error,
\* whatever is_secret is and whatever parsing, the kind test or the OAEP
\* construction would have said of it.
C5_OpenSSHFirst ==
    (kv.called /\ kv.key.ssh) => kv.result = ErrOpenSSH

C5_Witness ==
    /\ kv.called /\ kv.key.ssh /\ kv.key.parse = "ValueError" /\ kv.is_secret
    /\ kv.result = ErrOpenSSH

\* C6: a blob that does not parse is rejected with a format error, never
\* with a kind error and never accepted: outside the OpenSSH line format a
\* ValueError gives ErrInvalidRSA and any other exception ErrInvalidKey.
C6_ParseFailure ==
    (kv.called /\ kv.key.parse # "ok") =>
        /\ kv.result \in FormatErrors
        /\ kv.result \notin KindErrors \cup {OK}
        /\ ~kv.key.ssh =>
               kv.result = (IF kv.key.parse = "ValueError" THEN ErrInvalidRSA
                            ELSE ErrInvalidKey)

C6_Witness ==
    /\ kv.called /\ ~kv.key.ssh /\ kv.key.parse = "Other"
    /\ kv.result = ErrInvalidKey

\* C7: UserKeyForm accepts a public_key exactly when validate_rsa_key with
\* is_secret=False passes, and then returns the submitted key itself; a
\* blob with private components, in OpenSSH line format, or that does not
\* parse is rejected with a validation error.
C7_CleanPublicKey ==
    uk.submitted =>
        /\ uk.cleaned.valid <=>
               /\ ~uk.public_key.ssh
               /\ uk.public_key.parse = "ok"
               /\ ~uk.public_key.has_private
               /\ uk.public_key.oaep = "ok"
        /\ uk.cleaned.valid => uk.cleaned.value = uk.public_key
        /\ ~uk.cleaned.valid => uk.cleaned.error \in ValidationErrors

C7_Witness ==
    /\ uk.submitted /\ uk.public_key.parse = "ok" /\ uk.public_key.has_private
    /\ ~uk.cleaned.valid /\ uk.cleaned.error = ErrPrivateGiven

Accepted(key, is_secret) ==
    /\ ~key.ssh
    /\ key.parse = "ok"
    /\ key.has_private <=> is_secret
    /\ key.oaep = "ok"

\* C8 as claimed: a blob is accepted exactly when it is not in OpenSSH line
\* format, parses, has private components iff is_secret, and OAEP
\* construction does not throw; a key that parses and is of the expected
\* kind but for which OAEP construction throws gets the OAEP error.
C8_AsClaimed ==
    kv.called =>
        /\ (kv.result = OK) <=> Accepted(kv.key, kv.is_secret)
        /\ ( /\ kv.key.parse = "ok" /\ ~WrongKind(kv.key, kv.is_secret)
             /\ kv.key.oaep = "throws" ) => kv.result = ErrOAEP

C8_Outcome ==
    kv.called =>
        /\ (kv.result = OK) <=> Accepted(kv.key, kv.is_secret)
        /\ kv.result # OK => kv.result \in ValidationErrors
        /\ ( /\ ~kv.key.ssh /\ kv.key.parse = "ok"
             /\ ~WrongKind(kv.key, kv.is_secret)
             /\ kv.key.oaep = "throws" ) => kv.result = ErrOAEP

\* C8 amended: a blob is accepted exactly when it is not in OpenSSH line
\* format, parses, has private components iff is_secret, and OAEP
\* construction does not throw; a key not in OpenSSH line format that
\* parses and is of the expected kind but for which OAEP construction throws
\* gets the OAEP error; and a call changes nothing but its own outcome.
C8_Accepts ==
    /\ []C8_Outcome
    /\ [][kv' # kv => UNCHANGED <<uk, db, req>>]_vars

C8_Witness ==
    /\ kv.called /\ ~kv.key.ssh /\ kv.key.parse = "ok"
    /\ kv.key.has_private /\ kv.is_secret /\ kv.key.oaep = "throws"
    /\ kv.result = ErrOAEP

(***************************************************************************)
(* Properties of the secret forms.                                         *)
(***************************************************************************)
InFlight(c) == req[c].phase # "idle"
IsCreate(c) == req[c].pk = 0
DataTriple(c) == <<req[c].data.device, req[c].data.role, req[c].data.name>>

\* No two stored secrets share (device, role, name).
NoTwoShareTriple ==
    \A p, q \in DOMAIN db :
        p # q => <<db[p].device, db[p].role, db[p].name>>
                     # <<db[q].device, db[q].role, db[q].name>>

\* The store is as it was when c's form was validated: nothing is saved yet.
NotYetSaved(c) == InFlight(c) /\ req[c].saved = "no"

\* Another stored secret has the triple c submitted.
Collides(c) ==
    \E p \in DOMAIN db \ {req[c].pk} : Triple(db[p]) = DataTriple(c)

\* c's submission passes every check but, possibly, the uniqueness check.
PassesButUniqueness(c) ==
    /\ req[c].data.device # NoValue
    /\ req[c].data.role # NoValue
    /\ req[c].data.plaintext = req[c].data.plaintext2
    /\ Len(req[c].data.plaintext) <= SECRET_PLAINTEXT_MAX_LENGTH
    /\ IsCreate(c) => req[c].data.plaintext # <<>>

\* C2: with requests handled one after the other, no two stored secrets
\* share (device, role, name); SecretForm rejects a create or an update
\* whose triple is that of another stored secret (with the uniqueness error
\* when nothing else is wrong), does not raise the uniqueness error for an
\* update that keeps the secret's own triple, and a form that passed clean
\* is saved without the store's constraint firing.
C2_Unique ==
    /\ NoTwoShareTriple
    /\ \A c \in Callers :
           (InFlight(c) /\ req[c].form = "SecretForm") =>
               /\ (NotYetSaved(c) /\ Collides(c)) =>
                      /\ req[c].outcome # "valid"
                      /\ PassesButUniqueness(c) => "unique" \in req[c].errors
               /\ (NotYetSaved(c) /\ ~Collides(c)) => "unique" \notin req[c].errors
               /\ ( /\ NotYetSaved(c) /\ ~IsCreate(c)
                    /\ Triple(db[req[c].pk]) = DataTriple(c) )
                      => "unique" \notin req[c].errors
               /\ req[c].phase = "done" => req[c].saved \in {"no", "saved"}

C2_Witness ==
    \E c \in Callers :
        /\ req[c].phase = "done" /\ req[c].form = "SecretForm" /\ ~IsCreate(c)
        /\ Triple(db[req[c].pk]) = DataTriple(c)
        /\ req[c].data.plaintext # <<>>
        /\ req[c].saved = "saved"
        /\ Len(db) = MaxSecrets

Attempted(c) ==
    /\ req[c].phase = "done" /\ IsCreate(c) /\ req[c].outcome = "valid"
    /\ req[c].saved = "saved" => Triple(db[req[c].instance_pk]) = DataTriple(c)

\* The save of a creation: it fails when the triple is taken and stores the
\* secret when it is free.
C3_CreateSave(c) ==
    (req[c].phase = "validated" /\ req'[c].phase = "done" /\ IsCreate(c)) =>
        IF \E p \in DOMAIN db : Triple(db[p]) = DataTriple(c)
        THEN req'[c].saved = "UniquenessViolation" /\ db' = db
        ELSE /\ req'[c].saved = "saved"
             /\ Len(db') = Len(db) + 1
             /\ Triple(db'[Len(db')]) = DataTriple(c)
             /\ \A p \in DOMAIN db : db'[p] = db[p]

C3_Outcome ==
    /\ NoTwoShareTriple
    /\ \A c1, c2 \in Callers :
           ( /\ c1 # c2 /\ Attempted(c1) /\ Attempted(c2)
             /\ DataTriple(c1) = DataTriple(c2) ) =>
               /\ ~(req[c1].saved = "saved" /\ req[c2].saved = "saved")
               /\ \E p \in DOMAIN db : Triple(db[p]) = DataTriple(c1)
               /\ req[c1].saved # "saved" => req[c1].saved = "UniquenessViolation"

\* C3: when two callers create secrets with the same (device, role, name)
\* concurrently, whatever the order of their validations and saves, the
\* save that comes first stores the secret and the other fails with a
\* uniqueness violation: at most one of the two is stored, and the store
\* never holds two secrets with the same triple.
C3_OneWinner ==
    /\ []C3_Outcome
    /\ [][\A c \in Callers : C3_CreateSave(c)]_vars

\* Both forms passed validation before either was saved.
C3_Witness ==
    \E c1, c2 \in Callers :
        /\ c1 # c2 /\ Attempted(c1) /\ Attempted(c2)
        /\ req[c1].form = "SecretForm" /\ req[c2].form = "SecretForm"
        /\ DataTriple(c1) = DataTriple(c2)
        /\ req[c1].saved = "saved"
        /\ req[c2].outcome = "valid" /\ req[c2].saved = "UniquenessViolation"

C4_Forms ==
    \A c \in Callers :
        (InFlight(c) /\ req[c].form = "SecretForm") =>
            /\ req[c].required <=> IsCreate(c)
            /\ (IsCreate(c) /\ req[c].data.plaintext = <<>>) =>
                   /\ req[c].outcome # "valid"
                   /\ req[c].saved # "saved"
            /\ ( /\ ~IsCreate(c) /\ NotYetSaved(c)
                 /\ req[c].data.plaintext = <<>> /\ req[c].data.plaintext2 = <<>>
                 /\ req[c].data.device # NoValue /\ req[c].data.role # NoValue
                 /\ ~Collides(c) ) => req[c].outcome = "valid"

\* The save of an edit whose plaintext was left blank.
C4_BlankEditSave(c) ==
    ( /\ req[c].phase = "validated" /\ req'[c].phase = "done"
      /\ req[c].form = "SecretForm" /\ ~IsCreate(c)
      /\ req[c].data.plaintext = <<>> ) =>
        /\ req'[c].saved = "saved"
        /\ db'[req[c].pk].ciphertext = db[req[c].pk].ciphertext
        /\ Triple(db'[req[c].pk]) = DataTriple(c)
        /\ \A p \in DOMAIN db \ {req[c].pk} : db'[p] = db[p]
        /\ DOMAIN db' = DOMAIN db

\* C4: SecretForm requires plaintext exactly when the instance has no pk,
\* so a create with blank plaintext is never valid and never saved; an edit
\* with the plaintext left blank is valid (its other fields given and its
\* triple free), and saving it keeps the stored ciphertext and writes only
\* device, role and name.
C4_PlaintextRequired ==
    /\ []C4_Forms
    /\ [][\A c \in Callers : C4_BlankEditSave(c)]_vars

C4_Witness ==
    \E c \in Callers :
        /\ req[c].phase = "done" /\ req[c].form = "SecretForm" /\ ~IsCreate(c)
        /\ req[c].data.plaintext = <<>>
        /\ req[c].saved = "saved"
        /\ Triple(db[req[c].pk]) = DataTriple(c)
        /\ db[req[c].pk].ciphertext = Encrypt(Str(1))

TooLong(plaintext) == Len(plaintext) > SECRET_PLAINTEXT_MAX_LENGTH

\* The same row posted to SecretForm as a creation.
AsFormData(row) ==
    [device |-> row.device, role |-> row.role, name |-> row.name,
     plaintext |-> row.plaintext, plaintext2 |-> row.plaintext]

C9_Required ==
    /\ \A c \in Callers :
           (InFlight(c) /\ IsCreate(c) /\ req[c].data.plaintext = <<>>) =>
               /\ "plaintext" \in req[c].errors
               /\ req[c].outcome # "valid"
               /\ req[c].saved # "saved"
    /\ \A p \in DOMAIN db :
           /\ db[p].ciphertext # Encrypt(<<>>)
           /\ \E n \in 1..SECRET_PLAINTEXT_MAX_LENGTH : db[p].ciphertext = Encrypt(Str(n))
    /\ NoTwoShareTriple

\* The save of an imported row that SecretForm would turn down.
C9_ImportSave(c) ==
    ( /\ req[c].phase = "validated" /\ req'[c].phase = "done"
      /\ req[c].form = "SecretCSVForm"
      /\ \/ TooLong(req[c].data.plaintext)
         \/ \E p \in DOMAIN db : Triple(db[p]) = DataTriple(c) ) =>
        /\ SecretForm_is_valid(AsFormData(req[c].data), 0, db).outcome # "valid"
        /\ req'[c].saved \in {"PlaintextTooLong", "UniquenessViolation"}
        /\ db' = db

C10_AsClaimed ==
    \A c \in Callers :
        (InFlight(c) /\ req[c].form = "SecretForm") =>
            /\ req[c].outcome \in {"valid", "invalid"}
            /\ req[c].outcome = "invalid" => req[c].errors # {}
            /\ "plaintext2" \in req[c].errors => "unique" \notin req[c].errors
====
